---- MODULE Spec2Model ----
(***************************************************************************)
(* Model of simple-jwt-refresh: the token codec (utils.ts) and the         *)
(* JWTManager (jwt-manager.ts).  JavaScript runs one job at a time, so     *)
(* every action below is one synchronous run of code between two awaits.   *)
(* Strings are sequences of one-character strings; null is the empty       *)
(* sequence and a present value v is <<v>>.                                *)
(***************************************************************************)
EXTENDS Integers, Sequences, FiniteSets, TLC

\* ------------------------------------------------------------------ bounds
\* clock steps the model takes
MaxTick == 2
\* milliseconds per clock step
TickMs == 500
\* refresh IIFEs alive at one time
MaxRefresh == 2
\* concurrent callers of the asynchronous operations
NumProcs == 2
\* longest string given to isValidJWTFormat
MaxStringLen == 5
\* largest exp claim (epoch seconds) given to createJWTToken
MaxExp == 3

\* ------------------------------------------------------------ constants
\* utils.ts: payload.exp * 1000
MsPerSecond == 1000

None == << >>
Some(v) == << v >>

\* ---------------------------------------------------------- token strings
TokA == << "h", ".", "1", ".", "s" >>
TokB == << "h", ".", "2", ".", "s" >>
TokZero == << "h", ".", "0", ".", "s" >>
TokNoExp == << "h", ".", "j", ".", "s" >>
TokGarbage == << "h", ".", "x", ".", "s" >>
TwoSegments == << "h", ".", "1" >>
FourSegments == << "h", ".", "1", ".", "s", ".", "x" >>
EmptySegment == << "h", ".", ".", "s" >>
EmptyString == << >>

\* ------------------------------------------------------------ token codec
\* String.prototype.split('.')
RECURSIVE SplitFrom(_, _, _)
SplitFrom(s, i, cur) ==
    IF i > Len(s) THEN << cur >>
    ELSE IF s[i] = "." THEN << cur >> \o SplitFrom(s, i + 1, << >>)
    ELSE SplitFrom(s, i + 1, Append(cur, s[i]))

Split(s) == SplitFrom(s, 1, << >>)

\* an isValidJWTFormat that only counts the segments
isValidJWTFormatCountsOnly(token) ==
    IF Len(token) = 0 THEN FALSE
    ELSE Len(Split(token)) = 3

\* isValidJWTFormat(token) for a string argument
isValidJWTFormat(token) ==
    IF Len(token) = 0 THEN FALSE
    ELSE LET parts == Split(token)
         IN  Len(parts) = 3 /\ \A k \in 1..Len(parts) : Len(parts[k]) > 0

\* JSON.parse(atob(payload)): the payload segments the model draws are the
\* encodings of {"exp": d} (one digit d), of an object without exp ("j"),
\* and segments that are no base64 of JSON (anything else, the empty one too).
Digits == << "0", "1", "2", "3", "4", "5", "6", "7", "8", "9" >>

DigitValue(c) ==
    IF \E k \in 1..Len(Digits) : Digits[k] = c
    THEN (CHOOSE k \in 1..Len(Digits) : Digits[k] = c) - 1
    ELSE -1

atobJson(payload) ==
    IF Len(payload) = 1 /\ DigitValue(payload[1]) >= 0
    THEN [ok |-> TRUE, hasExp |-> TRUE, exp |-> DigitValue(payload[1])]
    ELSE IF payload = << "j" >>
    THEN [ok |-> TRUE, hasExp |-> FALSE, exp |-> 0]
    ELSE [ok |-> FALSE, hasExp |-> FALSE, exp |-> 0]

\* decodeJWT(token): the payload, or the error thrown
decodeJWT(token) ==
    LET parts == Split(token)
    IN  IF Len(parts) # 3
        THEN [ok |-> FALSE, error |-> "Invalid JWT token format", hasExp |-> FALSE, exp |-> 0]
        ELSE LET d == atobJson(parts[2])
             IN  IF d.ok
                 THEN [ok |-> TRUE, error |-> "", hasExp |-> d.hasExp, exp |-> d.exp]
                 ELSE [ok |-> FALSE, error |-> "Failed to decode JWT token",
                       hasExp |-> FALSE, exp |-> 0]

\* getTokenExpiration(token): !payload.exp is true of a missing exp and of exp 0
getTokenExpiration(token) ==
    LET p == decodeJWT(token)
    IN  IF ~p.ok THEN [ok |-> FALSE, error |-> p.error, value |-> 0]
        ELSE IF ~p.hasExp \/ p.exp = 0
        THEN [ok |-> FALSE, error |-> "Token does not contain expiration time", value |-> 0]
        ELSE [ok |-> TRUE, error |-> "", value |-> p.exp * MsPerSecond]

\* createJWTToken(token)
createJWTToken(token) ==
    LET e == getTokenExpiration(token)
    IN  IF e.ok
        THEN [ok |-> TRUE, error |-> "", value |-> [token |-> token, expiresAt |-> e.value]]
        ELSE [ok |-> FALSE, error |-> e.error, value |-> [token |-> token, expiresAt |-> 0]]

\* What JavaScript can pass where a string is declared: a string, null or
\* undefined
JsString(str) == [kind |-> "string", str |-> str]
JsNull == [kind |-> "null", str |-> << >>]
JsUndefined == [kind |-> "undefined", str |-> << >>]

\* isValidJWTFormat(token) for any argument: `!token || typeof token !== 'string'`
isValidJWTFormatOfValue(v) ==
    IF v.kind # "string" THEN FALSE ELSE isValidJWTFormat(v.str)

VARIABLES
    now,              \* Date.now()
    accessToken,      \* this.accessToken: None or Some(JWTToken)
    refreshPromise,   \* this.refreshPromise: 0 (null) or the id of a refresh
    refreshTimeoutId, \* this.refreshTimeoutId: 0 (null) or a timer id
    timers,           \* the environment's pending setTimeout timers
    refreshes,        \* the refresh IIFEs, by id
    procs,            \* the callers of the asynchronous operations
    sched,            \* the arming done by the last setAccessToken, while only
                      \* the clock has moved since
    last              \* what the step just taken did, for the properties; every
                      \* step overwrites it

vars == << now, accessToken, refreshPromise, refreshTimeoutId, timers, refreshes,
           procs, sched, last >>

\* config.refreshBuffer
refreshBuffer == TickMs

\* an isTokenExpired that does not count the boundary instant
isTokenExpiredAfterBoundary(token, bufferMs) == now > token.expiresAt - bufferMs

\* isTokenExpired(token, bufferMs)
isTokenExpired(token, bufferMs) == now >= token.expiresAt - bufferMs

\* ----------------------------------------------------------- manager state
\* the fields of one JWTManager and the timers it has armed, as one value
Mgr ==
    [accessToken |-> accessToken, refreshPromise |-> refreshPromise,
     refreshTimeoutId |-> refreshTimeoutId, timers |-> timers]

Install(m) ==
    /\ accessToken' = m.accessToken
    /\ refreshPromise' = m.refreshPromise
    /\ refreshTimeoutId' = m.refreshTimeoutId
    /\ timers' = m.timers

\* setTimeout's return value: an id no pending timer and no held handle has
FreshTimerId(m) ==
    LET used == {t.id : t \in m.timers} \cup {m.refreshTimeoutId}
    IN  CHOOSE i \in 1..(Cardinality(used) + 1) :
            /\ i \notin used
            /\ \A j \in 1..(i - 1) : j \in used

\* a clearRefreshTimeout that drops the handle without clearTimeout
clearRefreshTimeoutKeepsTimer(m) == [m EXCEPT !.refreshTimeoutId = 0]

\* clearRefreshTimeout()
clearRefreshTimeout(m) ==
    IF m.refreshTimeoutId # 0
    THEN [m EXCEPT !.timers = {t \in m.timers : t.id # m.refreshTimeoutId},
                   !.refreshTimeoutId = 0]
    ELSE m

\* a scheduleTokenRefresh that forgets the refresh buffer
scheduleTokenRefreshIgnoresBuffer(m) ==
    LET c == clearRefreshTimeout(m)
    IN  IF c.accessToken = None THEN c
        ELSE LET timeUntilRefresh == c.accessToken[1].expiresAt - now
                 id == FreshTimerId(c)
             IN  IF timeUntilRefresh > 0
                 THEN [c EXCEPT !.timers = c.timers \cup
                                    {[id |-> id, due |-> now + timeUntilRefresh,
                                      stale |-> FALSE]},
                                !.refreshTimeoutId = id]
                 ELSE c

\* a scheduleTokenRefresh that arms the timer whatever the time left
scheduleTokenRefreshAlways(m) ==
    LET c == clearRefreshTimeout(m)
    IN  IF c.accessToken = None THEN c
        ELSE LET timeUntilRefresh == c.accessToken[1].expiresAt - now - refreshBuffer
                 id == FreshTimerId(c)
                 delay == IF timeUntilRefresh > 0 THEN timeUntilRefresh ELSE 0
             IN  [c EXCEPT !.timers = c.timers \cup
                               {[id |-> id, due |-> now + delay, stale |-> FALSE]},
                           !.refreshTimeoutId = id]

\* scheduleTokenRefresh()
scheduleTokenRefresh(m) ==
    LET c == clearRefreshTimeout(m)
    IN  IF c.accessToken = None THEN c
        ELSE LET timeUntilRefresh == c.accessToken[1].expiresAt - now - refreshBuffer
                 id == FreshTimerId(c)
             IN  IF timeUntilRefresh > 0
                 THEN [c EXCEPT !.timers = c.timers \cup
                                    {[id |-> id, due |-> now + timeUntilRefresh,
                                      stale |-> FALSE]},
                                !.refreshTimeoutId = id]
                 ELSE c

\* a setAccessToken that stores the token and leaves the timer alone
setAccessTokenObjectWithoutSchedule(m, token) == [m EXCEPT !.accessToken = Some(token)]

\* setAccessToken(token: JWTToken): stored as it is, then the timer is re-armed
setAccessTokenObject(m, token) ==
    scheduleTokenRefresh([m EXCEPT !.accessToken = Some(token)])

\* a setAccessToken that drops the current token before it validates
setAccessTokenStringClearsFirst(m, token) ==
    LET c == createJWTToken(token)
    IN  IF ~isValidJWTFormat(token) \/ ~c.ok
        THEN [ok |-> FALSE, error |-> "Invalid JWT token format",
              m |-> [clearRefreshTimeout(m) EXCEPT !.accessToken = None]]
        ELSE [ok |-> TRUE, error |-> "", m |-> setAccessTokenObject(m, c.value)]

\* setAccessToken(token: string): m unchanged when it throws
setAccessTokenString(m, token) ==
    IF ~isValidJWTFormat(token)
    THEN [ok |-> FALSE, error |-> "Invalid JWT token format", m |-> m]
    ELSE LET c == createJWTToken(token)
         IN  IF ~c.ok THEN [ok |-> FALSE, error |-> c.error, m |-> m]
             ELSE [ok |-> TRUE, error |-> "", m |-> setAccessTokenObject(m, c.value)]

\* a clearAccessToken that leaves the timer armed
clearAccessTokenKeepsTimer(m) == [m EXCEPT !.accessToken = None]

\* a clearAccessToken that only cancels the timer
clearAccessTokenKeepsToken(m) == clearRefreshTimeout(m)

\* a clearAccessToken that also drops the pending refresh
clearAccessTokenDropsRefresh(m) ==
    [clearRefreshTimeout(m) EXCEPT !.accessToken = None, !.refreshPromise = 0]

\* clearAccessToken()
clearAccessToken(m) ==
    [clearRefreshTimeout(m) EXCEPT !.accessToken = None]

\* a destroy that leaves the timer armed
destroyKeepsTimer(m) == [m EXCEPT !.accessToken = None, !.refreshPromise = 0]

\* destroy()
destroy(m) ==
    [clearRefreshTimeout(m) EXCEPT !.accessToken = None, !.refreshPromise = 0]

\* a getCurrentAccessToken that hides an expired token
getCurrentAccessTokenHidesExpired(m) ==
    [value |-> IF m.accessToken # None /\ isTokenExpired(m.accessToken[1], 0)
               THEN None ELSE m.accessToken,
     m |-> m]

\* getCurrentAccessToken(): the value returned and the manager it leaves
getCurrentAccessToken(m) == [value |-> m.accessToken, m |-> m]

\* a hasValidAccessToken that applies the refresh buffer
hasValidAccessTokenWithBuffer(m) ==
    [value |-> m.accessToken # None /\ ~isTokenExpired(m.accessToken[1], refreshBuffer),
     m |-> m]

\* hasValidAccessToken(): isTokenExpired with its default bufferMs of 0
hasValidAccessToken(m) ==
    [value |-> m.accessToken # None /\ ~isTokenExpired(m.accessToken[1], 0),
     m |-> m]

\* The configuration given to the constructor, as far as validateConfig reads
\* it: refreshConfig.url is a non-empty string or not, and what typeof says of
\* refreshConfig.extractAccessToken
Configs ==
    [hasUrl : BOOLEAN, extractAccessToken : {"function", "undefined", "string"}]

\* a validateConfig that does not look at extractAccessToken
validateConfigUrlOnly(config) ==
    IF ~config.hasUrl THEN [ok |-> FALSE, error |-> "Refresh URL is required"]
    ELSE [ok |-> TRUE, error |-> ""]

\* validateConfig()
validateConfig(config) ==
    IF ~config.hasUrl THEN [ok |-> FALSE, error |-> "Refresh URL is required"]
    ELSE IF config.extractAccessToken # "function"
    THEN [ok |-> FALSE, error |-> "extractAccessToken function is required"]
    ELSE [ok |-> TRUE, error |-> ""]

\* new JWTManager(config): the field initialisers, then validateConfig()
JWTManager(config) ==
    LET v == validateConfig(config)
    IN  [ok |-> v.ok, error |-> v.error,
         m |-> [accessToken |-> None, refreshPromise |-> 0, refreshTimeoutId |-> 0,
                timers |-> {}]]

\* ------------------------------------------------------------- the refresh
\* One refresh IIFE (refreshAccessToken's async arrow function):
\*   pc      "free": the id is not in use; "fetch": inside performTokenRefresh,
\*           awaiting config.fetch or response.json(); "perfErr":
\*           performTokenRefresh has thrown after a 401/403 and the IIFE's
\*           continuation is queued; "resolved" / "rejected": the promise has
\*           settled and a caller has still to see it
\*   tok     the token performTokenRefresh returned, the promise's value
\*   authFailed  performTokenRefresh has invoked onAuthFailure
\*   destroyed   destroy() was called while this refresh was not yet settled
\*   error   the error the promise rejects with
\*   byTimer the refresh was started by the setTimeout callback
\*   handled a rejection handler is attached to the promise (an await or a
\*           .catch)
RefreshIds == 1..MaxRefresh

FreeRefresh ==
    [pc |-> "free", tok |-> None, authFailed |-> FALSE, destroyed |-> FALSE,
     error |-> "none", byTimer |-> FALSE, handled |-> FALSE]

NewRefresh == [FreeRefresh EXCEPT !.pc = "fetch"]

\* a promise whose rejection never reaches the jobs awaiting it
SettledOnlyResolved(r) == r.pc = "resolved"

Settled(r) == r.pc \in {"resolved", "rejected"}

\* the refreshes whose network call is outstanding
Outstanding(rs) == {i \in RefreshIds : rs[i].pc = "fetch"}

FreshRefreshId(rs) == CHOOSE i \in RefreshIds :
    rs[i].pc = "free" /\ \A j \in 1..(i - 1) : rs[j].pc # "free"

\* refreshAccessToken(), up to the first await: the promise returned, and the
\* fetch that performTokenRefresh issues when a new refresh is started
refreshAccessToken(m, rs) ==
    IF m.refreshPromise # 0
    THEN [m |-> m, rs |-> rs, id |-> m.refreshPromise, started |-> FALSE]
    ELSE LET id == FreshRefreshId(rs)
         IN  [m |-> [m EXCEPT !.refreshPromise = id],
              rs |-> [rs EXCEPT ![id] = NewRefresh], id |-> id, started |-> TRUE]

\* the cap on live refreshes: a call that would start one more is not taken
CanRefresh == refreshPromise # 0 \/ \E i \in RefreshIds : refreshes[i].pc = "free"

\* what the refresh endpoint answers: 0 stands for a rejected fetch
RefreshStatuses == {0, 200, 401, 403, 500}
\* what the resource endpoint answers
RequestStatuses == {0, 200, 401, 403}
ResponseOk(status) == status >= 200 /\ status <= 299

\* what extractAccessToken(data) returns
RefreshTokens ==
    {[token |-> TokB, expiresAt |-> 3 * TickMs],
     [token |-> EmptySegment, expiresAt |-> 3 * TickMs]}
JsonResults ==
    {[ok |-> FALSE, tok |-> None]} \cup
    {[ok |-> TRUE, tok |-> x] : x \in {None} \cup {Some(t) : t \in RefreshTokens}}
NoBody == [ok |-> FALSE, tok |-> None]

\* a performTokenRefresh that treats a 401/403 like any other failure
performTokenRefreshIgnoresAuthFailure(m, r, status, body) ==
    IF status = 0 \/ ~ResponseOk(status) \/ ~body.ok THEN
        [m |-> m, r |-> [r EXCEPT !.pc = "perfErr"]]
    ELSE IF body.tok = None \/ ~isValidJWTFormat(body.tok[1].token)
    THEN [m |-> m, r |-> [r EXCEPT !.pc = "perfErr"]]
    ELSE [m |-> m, r |-> [r EXCEPT !.pc = "perfOk", !.tok = body.tok]]

\* a performTokenRefresh that clears the token on every non-ok status
performTokenRefreshClearsOnAnyStatus(m, r, status, body) ==
    IF status = 0 THEN [m |-> m, r |-> [r EXCEPT !.pc = "perfErr"]]
    ELSE IF ~ResponseOk(status)
    THEN IF status = 401 \/ status = 403
         THEN [m |-> clearAccessToken(m),
               r |-> [r EXCEPT !.pc = "perfErr", !.authFailed = TRUE]]
         ELSE [m |-> clearAccessToken(m), r |-> [r EXCEPT !.pc = "perfErr"]]
    ELSE IF ~body.ok THEN [m |-> m, r |-> [r EXCEPT !.pc = "perfErr"]]
    ELSE IF body.tok = None \/ ~isValidJWTFormat(body.tok[1].token)
    THEN [m |-> m, r |-> [r EXCEPT !.pc = "perfErr"]]
    ELSE [m |-> m, r |-> [r EXCEPT !.pc = "perfOk", !.tok = body.tok]]

\* performTokenRefresh(), from the fetch's outcome and the body's: its effect
\* on the manager and "perfOk" (returned r.tok) or "perfErr" (thrown)
performTokenRefresh(m, r, status, body) ==
    IF status = 0 THEN [m |-> m, r |-> [r EXCEPT !.pc = "perfErr"]]
    ELSE IF ~ResponseOk(status)
    THEN IF status = 401 \/ status = 403
         THEN [m |-> clearAccessToken(m),
               r |-> [r EXCEPT !.pc = "perfErr", !.authFailed = TRUE]]
         ELSE [m |-> m, r |-> [r EXCEPT !.pc = "perfErr"]]
    ELSE IF ~body.ok THEN [m |-> m, r |-> [r EXCEPT !.pc = "perfErr"]]
    ELSE IF body.tok = None \/ ~isValidJWTFormat(body.tok[1].token)
    THEN [m |-> m, r |-> [r EXCEPT !.pc = "perfErr"]]
    ELSE [m |-> m, r |-> [r EXCEPT !.pc = "perfOk", !.tok = body.tok]]

\* one invocation of config.onTokenRefresh: its argument, and the current
\* token and the timers of the manager at that moment
OnTokenRefresh(m, token) ==
    [arg |-> token, current |-> m.accessToken, timers |-> m.timers]

\* an IIFE that invokes onTokenRefresh before it installs the token
refreshContinuationCallbackFirst(m, r, callbackThrows) ==
    IF r.pc = "perfOk"
    THEN LET called == << OnTokenRefresh(m, r.tok[1]) >>
             installed == setAccessTokenObject(m, r.tok[1])
         IN  IF callbackThrows
             THEN [m |-> [m EXCEPT !.refreshPromise = 0],
                   r |-> [r EXCEPT !.pc = "rejected", !.tok = None,
                                   !.error = "TokenRefreshError"],
                   onTokenRefresh |-> called,
                   onTokenRefreshError |-> << "TokenRefreshError" >>]
             ELSE [m |-> [installed EXCEPT !.refreshPromise = 0],
                   r |-> [r EXCEPT !.pc = "resolved"],
                   onTokenRefresh |-> called,
                   onTokenRefreshError |-> << >>]
    ELSE [m |-> [m EXCEPT !.refreshPromise = 0],
          r |-> [r EXCEPT !.pc = "rejected", !.tok = None,
                          !.error = "TokenRefreshError"],
          onTokenRefresh |-> << >>,
          onTokenRefreshError |-> << "TokenRefreshError" >>]

\* an IIFE whose catch block rethrows without invoking onTokenRefreshError
refreshContinuationNoErrorCallback(m, r, callbackThrows) ==
    IF r.pc = "perfOk" /\ ~callbackThrows
    THEN LET installed == setAccessTokenObject(m, r.tok[1])
         IN  [m |-> [installed EXCEPT !.refreshPromise = 0],
              r |-> [r EXCEPT !.pc = "resolved"],
              onTokenRefresh |-> << OnTokenRefresh(installed, r.tok[1]) >>,
              onTokenRefreshError |-> << >>]
    ELSE LET installed == IF r.pc = "perfOk" THEN setAccessTokenObject(m, r.tok[1])
                          ELSE m
         IN  [m |-> [installed EXCEPT !.refreshPromise = 0],
              r |-> [r EXCEPT !.pc = "rejected", !.tok = None,
                              !.error = "TokenRefreshError"],
              onTokenRefresh |-> IF r.pc = "perfOk"
                                 THEN << OnTokenRefresh(installed, r.tok[1]) >>
                                 ELSE << >>,
              onTokenRefreshError |-> << >>]

\* an IIFE without the finally block
refreshContinuationKeepsMarker(m, r, callbackThrows) ==
    IF r.pc = "perfOk"
    THEN LET installed == setAccessTokenObject(m, r.tok[1])
             called == << OnTokenRefresh(installed, r.tok[1]) >>
         IN  IF callbackThrows
             THEN [m |-> installed,
                   r |-> [r EXCEPT !.pc = "rejected", !.tok = None,
                                   !.error = "TokenRefreshError"],
                   onTokenRefresh |-> called,
                   onTokenRefreshError |-> << "TokenRefreshError" >>]
             ELSE [m |-> installed,
                   r |-> [r EXCEPT !.pc = "resolved"],
                   onTokenRefresh |-> called,
                   onTokenRefreshError |-> << >>]
    ELSE [m |-> m,
          r |-> [r EXCEPT !.pc = "rejected", !.tok = None,
                          !.error = "TokenRefreshError"],
          onTokenRefresh |-> << >>,
          onTokenRefreshError |-> << "TokenRefreshError" >>]

\* an IIFE that invokes each callback twice
refreshContinuationCallsTwice(m, r, callbackThrows) ==
    IF r.pc = "perfOk"
    THEN LET installed == setAccessTokenObject(m, r.tok[1])
             called == << OnTokenRefresh(installed, r.tok[1]),
                          OnTokenRefresh(installed, r.tok[1]) >>
         IN  IF callbackThrows
             THEN [m |-> [installed EXCEPT !.refreshPromise = 0],
                   r |-> [r EXCEPT !.pc = "rejected", !.tok = None,
                                   !.error = "TokenRefreshError"],
                   onTokenRefresh |-> called,
                   onTokenRefreshError |-> << "TokenRefreshError", "TokenRefreshError" >>]
             ELSE [m |-> [installed EXCEPT !.refreshPromise = 0],
                   r |-> [r EXCEPT !.pc = "resolved"],
                   onTokenRefresh |-> called,
                   onTokenRefreshError |-> << >>]
    ELSE [m |-> [m EXCEPT !.refreshPromise = 0],
          r |-> [r EXCEPT !.pc = "rejected", !.tok = None,
                          !.error = "TokenRefreshError"],
          onTokenRefresh |-> << >>,
          onTokenRefreshError |-> << "TokenRefreshError", "TokenRefreshError" >>]

\* the IIFE after `await this.performTokenRefresh()`: try / catch / finally.
\* onTokenRefresh and onTokenRefreshError are the invocations of the two
\* callbacks, the latter with the error it is given.
refreshContinuation(m, r, callbackThrows) ==
    IF r.pc = "perfOk"
    THEN LET installed == setAccessTokenObject(m, r.tok[1])
             called == << OnTokenRefresh(installed, r.tok[1]) >>
         IN  IF callbackThrows
             THEN [m |-> [installed EXCEPT !.refreshPromise = 0],
                   r |-> [r EXCEPT !.pc = "rejected", !.tok = None,
                                   !.error = "TokenRefreshError"],
                   onTokenRefresh |-> called,
                   onTokenRefreshError |-> << "TokenRefreshError" >>]
             ELSE [m |-> [installed EXCEPT !.refreshPromise = 0],
                   r |-> [r EXCEPT !.pc = "resolved"],
                   onTokenRefresh |-> called,
                   onTokenRefreshError |-> << >>]
    ELSE [m |-> [m EXCEPT !.refreshPromise = 0],
          r |-> [r EXCEPT !.pc = "rejected", !.tok = None,
                          !.error = "TokenRefreshError"],
          onTokenRefresh |-> << >>,
          onTokenRefreshError |-> << "TokenRefreshError" >>]

\* `await promise` or `promise.catch(...)`: the promise has a rejection handler
attach(rs, id) == [rs EXCEPT ![id].handled = TRUE]

\* a setTimeout callback without the .catch
timerCallbackWithoutCatch(m, rs) ==
    LET r == refreshAccessToken(m, rs)
    IN  IF r.started THEN [r EXCEPT !.rs = [r.rs EXCEPT ![r.id].byTimer = TRUE]]
        ELSE r

\* the setTimeout callback: this.refreshAccessToken().catch(error => ...)
timerCallback(m, rs) ==
    LET r == refreshAccessToken(m, rs)
        marked == IF r.started THEN [r.rs EXCEPT ![r.id].byTimer = TRUE] ELSE r.rs
    IN  [r EXCEPT !.rs = attach(marked, r.id)]


\* -------------------------------------------------------------- the callers
\* One caller of getAccessToken(), refreshAccessToken() or request():
\*   op, pc     the operation in progress and the await it is suspended at
\*   ref        the refresh promise it awaits, 0 when none
\*   hdrAuth    request(): config.headers has its own Authorization entry
\*   optHdrs    request(): config.options has its own headers entry
\*   viaRefresh request(): its getAccessToken() went through a refresh
Procs == 1..NumProcs

IdleProc ==
    [op |-> "none", pc |-> "idle", ref |-> 0, hdrAuth |-> FALSE, optHdrs |-> FALSE,
     viaRefresh |-> FALSE]

Free(p) == procs[p].pc = "idle"

\* how a call settles: the value it resolves to or the error it rejects with
NoResult ==
    [kind |-> "none", str |-> None, jwt |-> None, status |-> 0, attempt |-> 0,
     bool |-> FALSE]
Threw(kind) == [NoResult EXCEPT !.kind = kind]
Response(status, attempt) ==
    [NoResult EXCEPT !.kind = "response", !.status = status, !.attempt = attempt]

\* a settled refresh is kept until the last caller awaiting it has resumed
Awaiting(ps, i) == \E p \in Procs : ps[p].ref = i

Release(rs, ps) ==
    [i \in RefreshIds |->
        IF Settled(rs[i]) /\ ~Awaiting(ps, i) THEN FreeRefresh ELSE rs[i]]

NoAuthorization == [kind |-> "none", str |-> None]
Bearer(str) == [kind |-> "Bearer", str |-> Some(str)]
CallerHeader == [kind |-> "headers", str |-> None]
OptionsHeaders == [kind |-> "options", str |-> None]

\* the Authorization header of the first fetch of request(): the object
\* { Authorization, ...config.headers }, then replaced by config.options.headers
firstAuthorization(str, hdrAuth, optHdrs) ==
    IF optHdrs THEN OptionsHeaders
    ELSE IF hdrAuth THEN CallerHeader
    ELSE Bearer(str)

\* the Authorization header of the retry: { ...headers, Authorization }, then
\* replaced by config.options.headers
retryAuthorization(str, hdrAuth, optHdrs) ==
    IF optHdrs THEN OptionsHeaders ELSE Bearer(str)

\* a getAccessToken that tests expiry without the buffer
needsRefreshWithoutBuffer(m) ==
    m.accessToken = None \/ isTokenExpired(m.accessToken[1], 0)

\* getAccessToken() takes the refresh path
needsRefresh(m) ==
    m.accessToken = None \/ isTokenExpired(m.accessToken[1], refreshBuffer)

\* a getAccessToken that lets the refresh error through
getAccessTokenResultRethrows(r) ==
    IF r.pc = "resolved"
    THEN [NoResult EXCEPT !.kind = "string", !.str = Some(r.tok[1].token)]
    ELSE Threw("TokenRefreshError")

\* getAccessToken() after `await this.refreshAccessToken()`
getAccessTokenResult(r) ==
    IF r.pc = "resolved"
    THEN [NoResult EXCEPT !.kind = "string", !.str = Some(r.tok[1].token)]
    ELSE Threw("NoValidTokenError")

\* What a step did:
\*   act        the step: "refreshAccessToken" (a caller's call), "timer",
\*              "getAccessToken:return" / ":await" / ":resume",
\*              "request:await" / ":send" / ":401" / ":retry" / ":settle",
\*              "refresh:settle" (the refresh promise settles),
\*              "refresh:perfErr" (performTokenRefresh throws on a 401/403),
\*              "refresh:settleAuthFailed" (the promise rejects after that),
\*              "setAccessToken", "setAccessToken:throw", "destroy",
\*              "clearAccessToken", "hasValidAccessToken", "getCurrentAccessToken",
\*              "isValidJWTFormat", "createJWTToken", "isTokenExpired", "constructor",
\*              "none" for the others
\*   started    the step started a refresh (issued the refresh fetch)
\*   joinable   a refresh fetch was outstanding when the step began
\*   slot       this.refreshPromise when the step began
\*   ref        the refresh promise the step returned or saw settle
\*   outcome    of that refresh: "resolved" or "rejected"
\*   tok        the token that refresh resolved to
\*   auth       the Authorization header of the fetch the step issued
\*   bearer     the token string request() had for that fetch
\*   viaRefresh the call's getAccessToken() went through a refresh
\*   attempt    request(): 1 for the first fetch, 2 for the retry
\*   authFailures  onAuthFailure invocations by request()'s own handler and by
\*              the refresh it awaited after the 401
\*   destroyed  the refresh that settled had seen destroy()
\*   wasEmpty   no token and no timer when the step began
\*   hadTimer   a timer was pending when the step began
\*   due        the due time of the timer that fired
\*   armed      sched when the step began
\*   status     the status of the refresh response, or of the response to the
\*              request fetch that settled in the step (0: the fetch rejected)
\*   onTokenRefresh, onTokenRefreshError  the invocations of the two callbacks
\*              in the step
\*   error      the error the refresh promise rejected with
\*   byTimer    the refresh that settled was started by the timer
\*   handled    the refresh that settled had a rejection handler
\*   reentered  the onAuthFailure invoked in the step called clearAccessToken()
\*   input      the argument of the utility function or constructor the step called
\*   bodyOk     the request fetch resolved and the body of its response was read
\*   result     how the call settled
NoEvent ==
    [act |-> "none", started |-> FALSE, joinable |-> FALSE, slot |-> 0, ref |-> 0,
     outcome |-> "none", tok |-> None, auth |-> NoAuthorization, bearer |-> None,
     viaRefresh |-> FALSE, attempt |-> 0, authFailures |-> 0, destroyed |-> FALSE,
     wasEmpty |-> FALSE, hadTimer |-> FALSE, due |-> 0, armed |-> None,
     status |-> 0, onTokenRefresh |-> << >>, onTokenRefreshError |-> << >>,
     error |-> "none", byTimer |-> FALSE, handled |-> FALSE, reentered |-> FALSE,
     input |-> None, bodyOk |-> FALSE, result |-> NoResult]

\* the part of an event every call of refreshAccessToken() fills in
Called(act, r) ==
    [NoEvent EXCEPT !.act = act, !.started = r.started, !.ref = r.id,
                    !.joinable = Outstanding(refreshes) # {},
                    !.slot = refreshPromise]


\* a catch (refreshError) block that drops the token and leaves the timer
authenticationRequiredKeepsTimer(m) ==
    [m |-> [m EXCEPT !.accessToken = None], authCalls |-> 1,
     result |-> Threw("NoValidTokenError")]

\* request()'s catch (refreshError) block: clearAccessToken(), onAuthFailure(),
\* throw NoValidTokenError
authenticationRequired(m) ==
    [m |-> clearAccessToken(m), authCalls |-> 1, result |-> Threw("NoValidTokenError")]

\* config.onAuthFailure(): a callback that does nothing to the manager, or one
\* that re-enters it with clearAccessToken()
onAuthFailure(m, reenters) == IF reenters THEN clearAccessToken(m) ELSE m

\* a retry that takes a second 401 for a failure of the refresh
retrySettleRejects401(m, status, bodyOk, reenters) ==
    IF status = 0 \/ ~bodyOk \/ status = 401
    THEN LET a == authenticationRequired(m)
         IN  [m |-> onAuthFailure(a.m, reenters), authCalls |-> a.authCalls,
              result |-> a.result, failed |-> TRUE]
    ELSE [m |-> m, authCalls |-> 0, result |-> Response(status, 2), failed |-> FALSE]

\* request() after the retry fetch: the response is returned whatever its
\* status; a rejected fetch or an unreadable body is thrown inside the try of
\* the 401 branch and lands in its catch (refreshError) block
retrySettle(m, status, bodyOk, reenters) ==
    IF status = 0 \/ ~bodyOk
    THEN LET a == authenticationRequired(m)
         IN  [m |-> onAuthFailure(a.m, reenters), authCalls |-> a.authCalls,
              result |-> a.result, failed |-> TRUE]
    ELSE [m |-> m, authCalls |-> 0, result |-> Response(status, 2), failed |-> FALSE]

\* ------------------------------------------------------------------ actions
Init ==
    /\ now = 0
    /\ accessToken = None
    /\ refreshPromise = 0
    /\ refreshTimeoutId = 0
    /\ timers = {}
    /\ refreshes = [i \in RefreshIds |-> FreeRefresh]
    /\ procs = [p \in Procs |-> IdleProc]
    /\ sched = None
    /\ last = NoEvent

\* Date.now() moves on
Tick ==
    /\ now < MaxTick * TickMs
    /\ now' = now + TickMs
    /\ last' = NoEvent
    /\ UNCHANGED << accessToken, refreshPromise, refreshTimeoutId, timers, refreshes,
                    procs, sched >>

\* what a setAccessToken call has armed, for sched: due D - B after the call,
\* D the token's remaining lifetime
Armed(m, token) ==
    IF m.refreshTimeoutId # 0
    THEN Some([due |-> now + (token.expiresAt - now) - refreshBuffer])
    ELSE None

ObjectTokens ==
    [token : {TokA}, expiresAt : {k * TickMs : k \in 2..MaxTick}] \cup
    {[token |-> EmptySegment, expiresAt |-> 2 * TickMs]}
StringInputs == {TokA, TokZero, TokNoExp, TokGarbage, TwoSegments, FourSegments,
                 EmptySegment, EmptyString}

\* setAccessToken(token) with a JWTToken object
SetAccessTokenObject ==
    \E token \in ObjectTokens :
        LET m == setAccessTokenObject(Mgr, token)
        IN  /\ Install(m)
            /\ sched' = Armed(m, token)
            /\ last' = [NoEvent EXCEPT !.act = "setAccessToken",
                                       !.hadTimer = (timers # {})]
            /\ UNCHANGED << now, refreshes, procs >>

\* setAccessToken(token) with a string; a call that throws changes nothing
SetAccessTokenString ==
    \E token \in StringInputs :
        LET res == setAccessTokenString(Mgr, token)
        IN  /\ Install(res.m)
            /\ sched' = IF res.ok THEN Armed(res.m, res.m.accessToken[1]) ELSE None
            /\ last' = IF res.ok
                       THEN [NoEvent EXCEPT !.act = "setAccessToken",
                                            !.hadTimer = (timers # {})]
                       ELSE [NoEvent EXCEPT !.act = "setAccessToken:throw"]
            /\ UNCHANGED << now, refreshes, procs >>

\* clearAccessToken()
ClearAccessToken ==
    /\ Install(clearAccessToken(Mgr))
    /\ sched' = None
    /\ last' = [NoEvent EXCEPT !.act = "clearAccessToken",
                               !.slot = refreshPromise,
                               !.joinable = (Outstanding(refreshes) # {}),
                               !.hadTimer = (timers # {}),
                               !.wasEmpty = (accessToken = None /\ timers = {})]
    /\ UNCHANGED << now, refreshes, procs >>

\* destroy(); the timers and refreshes it leaves behind are marked
Destroy ==
    LET m == destroy(Mgr)
    IN  /\ Install([m EXCEPT !.timers = {[t EXCEPT !.stale = TRUE] : t \in m.timers}])
        /\ refreshes' = [i \in RefreshIds |->
                            IF refreshes[i].pc \in {"fetch", "perfErr"}
                            THEN [refreshes[i] EXCEPT !.destroyed = TRUE]
                            ELSE refreshes[i]]
        /\ sched' = None
        /\ last' = [NoEvent EXCEPT !.act = "destroy", !.hadTimer = (timers # {})]
        /\ UNCHANGED << now, procs >>

\* the setTimeout callback: this.refreshAccessToken().catch(...)
TimerFire ==
    \E t \in timers :
        /\ now >= t.due
        /\ CanRefresh
        /\ LET r == timerCallback([Mgr EXCEPT !.timers = timers \ {t}], refreshes)
           IN  /\ Install(r.m)
               /\ refreshes' = r.rs
               /\ last' = [Called("timer", r) EXCEPT !.destroyed = t.stale,
                                                     !.due = t.due, !.armed = sched]
        /\ sched' = None
        /\ UNCHANGED << now, procs >>

\* the outcomes of one refresh: the status, the body for a 200, whether
\* onTokenRefresh throws for a token that is installed, and whether the
\* onAuthFailure of a 401/403 re-enters the manager
RefreshOutcomes ==
    {<< st, NoBody, FALSE, FALSE >> : st \in RefreshStatuses \ {200}} \cup
    {<< st, NoBody, FALSE, TRUE >> : st \in RefreshStatuses \cap {401, 403}} \cup
    {<< 200, b, FALSE, FALSE >> : b \in JsonResults} \cup
    {<< 200, [ok |-> TRUE, tok |-> Some(t)], TRUE, FALSE >> :
        t \in {x \in RefreshTokens : isValidJWTFormat(x.token)}}

\* performTokenRefresh of refresh i finishes: the fetch has settled and, for an
\* ok response, response.json() too.  When it has changed nothing of the manager
\* (every case but a 401/403), the IIFE's continuation, the next job, is taken
\* with it.
RefreshSettleOf(i) ==
    \E o \in RefreshOutcomes :
        /\ refreshes[i].pc = "fetch"
        /\ LET perf == performTokenRefresh(Mgr, refreshes[i], o[1], o[2])
               res == IF perf.r.authFailed
                      THEN [m |-> onAuthFailure(perf.m, o[4]), r |-> perf.r,
                            onTokenRefresh |-> << >>, onTokenRefreshError |-> << >>]
                      ELSE refreshContinuation(perf.m, perf.r, o[3])
           IN  /\ Install(res.m)
               /\ refreshes' = Release([refreshes EXCEPT ![i] = res.r], procs)
               /\ last' = [NoEvent EXCEPT
                      !.act = IF perf.r.authFailed THEN "refresh:perfErr"
                              ELSE "refresh:settle",
                      !.ref = i, !.outcome = res.r.pc, !.tok = res.r.tok,
                      !.slot = refreshPromise,
                      !.destroyed = refreshes[i].destroyed,
                      !.wasEmpty = (accessToken = None /\ timers = {}),
                      !.status = o[1], !.reentered = o[4],
                      !.authFailures = IF perf.r.authFailed THEN 1 ELSE 0,
                      !.onTokenRefresh = res.onTokenRefresh,
                      !.onTokenRefreshError = res.onTokenRefreshError,
                      !.error = res.r.error, !.byTimer = res.r.byTimer,
                      !.handled = res.r.handled]
        /\ sched' = None
        /\ UNCHANGED << now, procs >>

RefreshSettle == \E i \in RefreshIds : RefreshSettleOf(i)

\* the IIFE resumes after a performTokenRefresh that threw on a 401/403
RefreshContinueOf(i) ==
        /\ refreshes[i].pc = "perfErr"
        /\ LET res == refreshContinuation(Mgr, refreshes[i], FALSE)
           IN  /\ Install(res.m)
               /\ refreshes' = Release([refreshes EXCEPT ![i] = res.r], procs)
               /\ last' = [NoEvent EXCEPT
                      !.act = "refresh:settleAuthFailed", !.ref = i,
                      !.outcome = res.r.pc, !.slot = refreshPromise,
                      !.destroyed = refreshes[i].destroyed,
                      !.wasEmpty = (accessToken = None /\ timers = {}),
                      !.onTokenRefresh = res.onTokenRefresh,
                      !.onTokenRefreshError = res.onTokenRefreshError,
                      !.error = res.r.error, !.byTimer = res.r.byTimer,
                      !.handled = res.r.handled]
        /\ sched' = None
        /\ UNCHANGED << now, procs >>

RefreshContinue == \E i \in RefreshIds : RefreshContinueOf(i)

\* caller p calls refreshAccessToken()
CallRefreshAccessToken(p) ==
    /\ Free(p)
    /\ CanRefresh
    /\ LET r == refreshAccessToken(Mgr, refreshes)
       IN  /\ Install(r.m)
           /\ refreshes' = attach(r.rs, r.id)
           /\ procs' = [procs EXCEPT ![p] =
                  [IdleProc EXCEPT !.op = "refresh", !.pc = "awaitRefresh", !.ref = r.id]]
           /\ last' = Called("refreshAccessToken", r)
    /\ sched' = None
    /\ UNCHANGED now

\* the caller of refreshAccessToken() sees the promise settle
ResumeRefreshAccessToken(p) ==
    /\ procs[p].op = "refresh" /\ procs[p].pc = "awaitRefresh"
    /\ Settled(refreshes[procs[p].ref])
    /\ LET r == refreshes[procs[p].ref]
       IN  last' = [NoEvent EXCEPT
               !.act = "refreshAccessToken:resume", !.ref = procs[p].ref,
               !.outcome = r.pc, !.tok = r.tok,
               !.result = IF r.pc = "resolved"
                          THEN [NoResult EXCEPT !.kind = "JWTToken", !.jwt = r.tok]
                          ELSE Threw(r.error)]
    /\ procs' = [procs EXCEPT ![p] = IdleProc]
    /\ refreshes' = Release(refreshes, procs')
    /\ sched' = None
    /\ UNCHANGED << now, accessToken, refreshPromise, refreshTimeoutId, timers >>

\* caller p calls getAccessToken(): it returns the token or awaits a refresh
CallGetAccessToken(p) ==
    /\ Free(p)
    /\ IF needsRefresh(Mgr)
       THEN /\ CanRefresh
            /\ LET r == refreshAccessToken(Mgr, refreshes)
               IN  /\ Install(r.m)
                   /\ refreshes' = attach(r.rs, r.id)
                   /\ procs' = [procs EXCEPT ![p] =
                          [IdleProc EXCEPT !.op = "get", !.pc = "awaitRefresh",
                                           !.ref = r.id]]
                   /\ last' = Called("getAccessToken:await", r)
       ELSE /\ last' = [NoEvent EXCEPT
                   !.act = "getAccessToken:return",
                   !.result = [NoResult EXCEPT !.kind = "string",
                                               !.str = Some(accessToken[1].token)]]
            /\ UNCHANGED << accessToken, refreshPromise, refreshTimeoutId, timers,
                            refreshes, procs >>
    /\ sched' = None
    /\ UNCHANGED now

\* getAccessToken() resumes after `await this.refreshAccessToken()`
ResumeGetAccessToken(p) ==
    /\ procs[p].op = "get" /\ procs[p].pc = "awaitRefresh"
    /\ Settled(refreshes[procs[p].ref])
    /\ LET r == refreshes[procs[p].ref]
       IN  last' = [NoEvent EXCEPT
               !.act = "getAccessToken:resume", !.ref = procs[p].ref,
               !.outcome = r.pc, !.tok = r.tok, !.viaRefresh = TRUE,
               !.result = getAccessTokenResult(r)]
    /\ procs' = [procs EXCEPT ![p] = IdleProc]
    /\ refreshes' = Release(refreshes, procs')
    /\ sched' = None
    /\ UNCHANGED << now, accessToken, refreshPromise, refreshTimeoutId, timers >>


\* what the caller of request() passes: its own Authorization header or not,
\* its own options.headers or not (with both, options.headers decides)
RequestConfigs == {<< FALSE, FALSE >>, << TRUE, FALSE >>, << FALSE, TRUE >>}

\* request() after `await this.getAccessToken()` has given the token str: the
\* first fetch is issued
SendFirst(p, q, str) ==
    /\ procs' = [procs EXCEPT ![p] = [q EXCEPT !.pc = "awaitFetch1", !.ref = 0]]
    /\ last' = [NoEvent EXCEPT
           !.act = "request:send", !.attempt = 1, !.viaRefresh = q.viaRefresh,
           !.bearer = Some(str),
           !.auth = firstAuthorization(str, q.hdrAuth, q.optHdrs)]

\* caller p calls request(config), config one of configs: getAccessToken(),
\* then the first fetch.  A token returned without a refresh is sent in the
\* same action: between the two only the string already read is used.
CallRequestWith(p, configs) ==
    \E config \in configs :
        LET q == [IdleProc EXCEPT !.op = "request", !.hdrAuth = config[1],
                                  !.optHdrs = config[2]]
        IN  /\ Free(p)
            /\ IF needsRefresh(Mgr)
               THEN /\ CanRefresh
                    /\ LET r == refreshAccessToken(Mgr, refreshes)
                       IN  /\ Install(r.m)
                           /\ refreshes' = attach(r.rs, r.id)
                           /\ procs' = [procs EXCEPT ![p] =
                                  [q EXCEPT !.pc = "awaitGet", !.ref = r.id,
                                            !.viaRefresh = TRUE]]
                           /\ last' = Called("request:await", r)
               ELSE /\ SendFirst(p, q, accessToken[1].token)
                    /\ UNCHANGED << accessToken, refreshPromise, refreshTimeoutId,
                                    timers, refreshes >>
            /\ sched' = None
            /\ UNCHANGED now

CallRequest(p) == CallRequestWith(p, RequestConfigs)

\* request(config) with a config that has no headers and no options of its own
PlainConfigs == {<< FALSE, FALSE >>}

\* request() resumes after an `await this.getAccessToken()` that needed a refresh
ResumeRequestGet(p) ==
    /\ procs[p].op = "request" /\ procs[p].pc = "awaitGet"
    /\ Settled(refreshes[procs[p].ref])
    /\ LET res == getAccessTokenResult(refreshes[procs[p].ref])
       IN  IF res.kind = "string"
           THEN SendFirst(p, procs[p], res.str[1])
           ELSE /\ procs' = [procs EXCEPT ![p] = IdleProc]
                /\ last' = [NoEvent EXCEPT !.act = "request:settle", !.viaRefresh = TRUE,
                                           !.outcome = "rejected", !.result = res]
    /\ refreshes' = Release(refreshes, procs')
    /\ sched' = None
    /\ UNCHANGED << now, accessToken, refreshPromise, refreshTimeoutId, timers >>

\* the outcomes of one request fetch: the status (0: the fetch rejects) and, for
\* a response whose body request() reads, whether the read succeeds; for a
\* retry that fails, also whether onAuthFailure re-enters the manager
FirstStatuses == RequestStatuses \cup {500}
FirstOutcomes ==
    {<< 0, FALSE >>, << 401, TRUE >>} \cup
    {<< st, ok >> : st \in FirstStatuses \ {0, 401}, ok \in BOOLEAN}
RetryOutcomes ==
    {<< 0, FALSE, re >> : re \in BOOLEAN} \cup
    {<< st, FALSE, re >> : st \in RequestStatuses \ {0}, re \in BOOLEAN} \cup
    {<< st, TRUE, FALSE >> : st \in RequestStatuses \ {0}}

\* a request() that also refreshes and retries after a 403
refreshesAfterOr403(status) == status \in {401, 403}

\* request(): `response.status === 401`, the one status that is answered with
\* a refresh and a retry
refreshesAfter(status) == status = 401

\* the first fetch of request() settles: a rejection; a 401, and the refresh
\* is called; or another response, whose body read settles with it (between
\* the two awaits request() only holds the response)
RequestFetch1Settle(p) ==
    \E o \in FirstOutcomes :
        /\ procs[p].pc = "awaitFetch1"
        /\ IF o[1] # 0 /\ refreshesAfter(o[1])
           THEN /\ CanRefresh
                /\ LET r == refreshAccessToken(Mgr, refreshes)
                   IN  /\ Install(r.m)
                       /\ refreshes' = attach(r.rs, r.id)
                       /\ procs' = [procs EXCEPT ![p].pc = "awaitRefresh401",
                                                 ![p].ref = r.id]
                       /\ last' = [Called("request:401", r) EXCEPT
                                      !.viaRefresh = procs[p].viaRefresh,
                                      !.attempt = 1, !.status = o[1]]
           ELSE /\ procs' = [procs EXCEPT ![p] = IdleProc]
                /\ last' = [NoEvent EXCEPT
                       !.act = "request:settle", !.attempt = 1,
                       !.viaRefresh = procs[p].viaRefresh,
                       !.status = o[1], !.bodyOk = (o[1] # 0 /\ o[2]),
                       !.result = IF o[1] = 0 \/ ~o[2] THEN Threw("Error")
                                  ELSE Response(o[1], 1)]
                /\ UNCHANGED << accessToken, refreshPromise, refreshTimeoutId, timers,
                                refreshes >>
        /\ sched' = None
        /\ UNCHANGED now

\* request() resumes after `await this.refreshAccessToken()` in the 401 branch:
\* the retry fetch, or the catch (refreshError) block
ResumeRequestRefresh(p) ==
    /\ procs[p].pc = "awaitRefresh401"
    /\ Settled(refreshes[procs[p].ref])
    /\ LET r == refreshes[procs[p].ref]
           q == procs[p]
           e == [NoEvent EXCEPT !.ref = q.ref, !.outcome = r.pc, !.tok = r.tok,
                                !.viaRefresh = q.viaRefresh]
       IN  IF r.pc = "resolved"
           THEN /\ procs' = [procs EXCEPT ![p].pc = "awaitFetch2", ![p].ref = 0]
                /\ last' = [e EXCEPT
                       !.act = "request:retry", !.attempt = 2,
                       !.bearer = Some(r.tok[1].token),
                       !.auth = retryAuthorization(r.tok[1].token, q.hdrAuth, q.optHdrs)]
                /\ UNCHANGED << accessToken, refreshPromise, refreshTimeoutId, timers >>
           ELSE \E reenters \in BOOLEAN :
                LET a == authenticationRequired(Mgr)
                IN  /\ procs' = [procs EXCEPT ![p] = IdleProc]
                    /\ Install(onAuthFailure(a.m, reenters))
                    /\ last' = [e EXCEPT
                           !.act = "request:settle", !.attempt = 1,
                           !.authFailures = a.authCalls + (IF r.authFailed THEN 1 ELSE 0),
                           !.reentered = reenters, !.slot = refreshPromise,
                           !.result = a.result]
    /\ refreshes' = Release(refreshes, procs')
    /\ sched' = None
    /\ UNCHANGED now

\* the retry fetch settles, and the body read of its response with it; a
\* rejection of either lands in the catch (refreshError) block
RequestFetch2Settle(p) ==
    \E o \in RetryOutcomes :
        /\ procs[p].pc = "awaitFetch2"
        /\ procs' = [procs EXCEPT ![p] = IdleProc]
        /\ LET res == retrySettle(Mgr, o[1], o[2], o[3])
           IN  /\ Install(res.m)
               /\ last' = [NoEvent EXCEPT
                      !.act = "request:settle", !.attempt = 2, !.outcome = "resolved",
                      !.viaRefresh = procs[p].viaRefresh, !.tok = accessToken,
                      !.slot = refreshPromise, !.status = o[1],
                      !.bodyOk = (o[1] # 0 /\ o[2]),
                      !.reentered = (res.failed /\ o[3]),
                      !.authFailures = res.authCalls, !.result = res.result]
        /\ sched' = None
        /\ UNCHANGED << now, refreshes >>

\* hasValidAccessToken()
HasValidAccessToken ==
    LET res == hasValidAccessToken(Mgr)
    IN  /\ Install(res.m)
        /\ last' = [NoEvent EXCEPT
               !.act = "hasValidAccessToken",
               !.result = [NoResult EXCEPT !.kind = "boolean", !.bool = res.value]]
        /\ UNCHANGED << now, refreshes, procs, sched >>

\* getCurrentAccessToken()
GetCurrentAccessToken ==
    LET res == getCurrentAccessToken(Mgr)
    IN  /\ Install(res.m)
        /\ last' = [NoEvent EXCEPT
               !.act = "getCurrentAccessToken",
               !.result = IF res.value = None THEN [NoResult EXCEPT !.kind = "null"]
                          ELSE [NoResult EXCEPT !.kind = "JWTToken", !.jwt = res.value]]
        /\ UNCHANGED << now, refreshes, procs, sched >>

\* the strings of at most n characters over the letter "a" and the period
StringsUpTo(n) == UNION {[1..k -> {"a", "."}] : k \in 0..n}

\* the arguments isValidJWTFormat is called with
FormatInputs ==
    {JsString(str) : str \in StringsUpTo(MaxStringLen) \cup {TokA, FourSegments}}
        \cup {JsNull, JsUndefined}

\* isValidJWTFormat(token)
IsValidJWTFormat ==
    \E v \in FormatInputs :
        /\ last' = [NoEvent EXCEPT
               !.act = "isValidJWTFormat", !.input = v,
               !.result = [NoResult EXCEPT !.kind = "boolean",
                                           !.bool = isValidJWTFormatOfValue(v)]]
        /\ UNCHANGED << now, accessToken, refreshPromise, refreshTimeoutId, timers,
                        refreshes, procs, sched >>

\* a well-formed token whose payload is {"exp": E}
TokenWithExp(E) == << "h", ".", Digits[E + 1], ".", "s" >>

\* the strings createJWTToken is called with
CodecTokens ==
    {TokenWithExp(E) : E \in 0..MaxExp}
        \cup {TokNoExp, TokGarbage, TwoSegments, FourSegments, EmptySegment, EmptyString}

\* createJWTToken(token), then isTokenExpired(it) with the default buffer
CreateJWTToken ==
    \E token \in CodecTokens :
        /\ LET c == createJWTToken(token)
           IN  last' = [NoEvent EXCEPT
                   !.act = "createJWTToken", !.input = token,
                   !.error = IF c.ok THEN "none" ELSE c.error,
                   !.result = IF c.ok
                              THEN [NoResult EXCEPT !.kind = "JWTToken",
                                                    !.jwt = Some(c.value),
                                                    !.bool = isTokenExpired(c.value, 0)]
                              ELSE Threw("Error")]
        /\ UNCHANGED << now, accessToken, refreshPromise, refreshTimeoutId, timers,
                        refreshes, procs, sched >>

\* the tokens and buffers isTokenExpired is called with
ExpiryInputs ==
    [token : [token : {TokA}, expiresAt : {k * TickMs : k \in 0..(MaxTick + 1)}],
     bufferMs : {k * TickMs : k \in 0..MaxTick}]

\* isTokenExpired(token, bufferMs)
IsTokenExpired ==
    \E i \in ExpiryInputs :
        /\ last' = [NoEvent EXCEPT
               !.act = "isTokenExpired", !.input = i,
               !.result = [NoResult EXCEPT !.kind = "boolean",
                                           !.bool = isTokenExpired(i.token, i.bufferMs)]]
        /\ UNCHANGED << now, accessToken, refreshPromise, refreshTimeoutId, timers,
                        refreshes, procs, sched >>

\* new JWTManager(config): the manager of the model is the one constructed
Construct ==
    \E config \in Configs :
        LET c == JWTManager(config)
        IN  /\ IF c.ok THEN Install(c.m)
               ELSE UNCHANGED << accessToken, refreshPromise, refreshTimeoutId, timers >>
            /\ last' = [NoEvent EXCEPT
                   !.act = "constructor", !.input = config,
                   !.error = IF c.ok THEN "none" ELSE c.error,
                   !.result = IF c.ok THEN [NoResult EXCEPT !.kind = "JWTManager"]
                              ELSE Threw("Error")]
            /\ UNCHANGED << now, refreshes, procs, sched >>

\* one caller at a time of any of the asynchronous operations (tokens are set
\* as objects here: a string that setAccessToken accepts is stored as the
\* object createJWTToken makes of it, and the string form is part of NextSync)
Caller == 1

Next ==
    \/ Tick
    \/ SetAccessTokenObject
    \/ ClearAccessToken
    \/ Destroy
    \/ TimerFire
    \/ RefreshSettle
    \/ RefreshContinue
    \/ CallRefreshAccessToken(Caller)
    \/ ResumeRefreshAccessToken(Caller)
    \/ CallGetAccessToken(Caller)
    \/ ResumeGetAccessToken(Caller)
    \/ CallRequest(Caller)
    \/ ResumeRequestGet(Caller)
    \/ RequestFetch1Settle(Caller)
    \/ ResumeRequestRefresh(Caller)
    \/ RequestFetch2Settle(Caller)

Spec == Init /\ [][Next]_vars

\* NumProcs concurrent callers of refreshAccessToken() (tokens are set as
\* objects here; the other asynchronous operations are part of Next and the
\* string form of setAccessToken is part of NextSync)
NextCallers ==
    \/ Tick
    \/ SetAccessTokenObject
    \/ ClearAccessToken
    \/ Destroy
    \/ TimerFire
    \/ RefreshSettle
    \/ RefreshContinue
    \/ \E p \in Procs : CallRefreshAccessToken(p)
    \/ \E p \in Procs : ResumeRefreshAccessToken(p)

SpecCallers == Init /\ [][NextCallers]_vars

\* the synchronous operations, with the proactive timer and one caller of
\* refreshAccessToken() to bring the manager into every state they can find
NextSync ==
    \/ Tick
    \/ SetAccessTokenObject
    \/ SetAccessTokenString
    \/ ClearAccessToken
    \/ Destroy
    \/ TimerFire
    \/ RefreshSettle
    \/ RefreshContinue
    \/ CallRefreshAccessToken(Caller)
    \/ ResumeRefreshAccessToken(Caller)
    \/ HasValidAccessToken
    \/ GetCurrentAccessToken

SpecSync == Init /\ [][NextSync]_vars

\* NumProcs concurrent callers of request(), with plain configs and on a
\* clock that stands still
NextRequests ==
    \/ SetAccessTokenObject
    \/ Destroy
    \/ RefreshSettle
    \/ RefreshContinue
    \/ \E p \in Procs : CallRequestWith(p, PlainConfigs)
    \/ \E p \in Procs : ResumeRequestGet(p)
    \/ \E p \in Procs : RequestFetch1Settle(p)
    \/ \E p \in Procs : ResumeRequestRefresh(p)
    \/ \E p \in Procs : RequestFetch2Settle(p)

SpecRequests == Init /\ [][NextRequests]_vars

\* Every fetch and every body read settles, and the job queue runs every
\* continuation that is ready: each refresh's network call, each IIFE
\* continuation and each resumption of the caller is taken once it stays
\* enabled.  Nothing obliges the application to make a call, set a token or
\* let the clock move.
Fairness ==
    /\ \A i \in RefreshIds : WF_vars(RefreshSettleOf(i)) /\ WF_vars(RefreshContinueOf(i))
    /\ WF_vars(ResumeRefreshAccessToken(Caller))
    /\ WF_vars(ResumeGetAccessToken(Caller))
    /\ WF_vars(ResumeRequestGet(Caller))
    /\ WF_vars(RequestFetch1Settle(Caller))
    /\ WF_vars(ResumeRequestRefresh(Caller))
    /\ WF_vars(RequestFetch2Settle(Caller))

\* the asynchronous operations, the timer and destroy(); request() is called
\* with plain configs and every token comes from the refresh endpoint
NextLive ==
    \/ Tick
    \/ Destroy
    \/ TimerFire
    \/ RefreshSettle
    \/ RefreshContinue
    \/ CallRefreshAccessToken(Caller)
    \/ ResumeRefreshAccessToken(Caller)
    \/ CallGetAccessToken(Caller)
    \/ ResumeGetAccessToken(Caller)
    \/ CallRequestWith(Caller, PlainConfigs)
    \/ ResumeRequestGet(Caller)
    \/ RequestFetch1Settle(Caller)
    \/ ResumeRequestRefresh(Caller)
    \/ RequestFetch2Settle(Caller)

SpecLive == Init /\ [][NextLive]_vars /\ Fairness

\* the utility functions and the constructor, applied to inputs drawn from
\* bounded sets as the clock advances
NextUtils ==
    \/ Tick
    \/ IsValidJWTFormat
    \/ CreateJWTToken
    \/ IsTokenExpired
    \/ Construct

SpecUtils == Init /\ [][NextUtils]_vars

\* ------------------------------------------------------------------- claims

\* C1: every refreshAccessToken() call issued while a refresh network call is
\* outstanding issues no further fetch and returns the promise of that one
\* outstanding call, so all callers get the same promise and outcome.
C1_CallsAreCoalesced ==
    last.act = "refreshAccessToken" /\ last.joinable =>
        /\ ~last.started
        /\ last.ref = last.slot
        /\ Outstanding(refreshes) = {last.ref}

\* C2: in every reachable state at most one refresh network call of the
\* manager is outstanding.
C2_AtMostOneOutstanding == Cardinality(Outstanding(refreshes)) <= 1

\* C3: a request() that had a present, non-expired token and whose first
\* response is a 401 awaits one refresh (started by it unless one is pending),
\* then sends one retry whose Authorization header is Bearer + the refreshed
\* token, and resolves to the response of that retry.
C3_RetryCarriesNewToken ==
    /\ last.act = "request:401" /\ ~last.viaRefresh =>
           /\ last.ref # 0
           /\ last.started <=> last.slot = 0
    /\ last.act = "request:retry" /\ ~last.viaRefresh =>
           /\ last.outcome = "resolved"
           /\ last.auth = Bearer(last.tok[1].token)
    /\ last.act = "request:settle" /\ last.attempt = 2 /\ ~last.viaRefresh
           /\ last.result.kind = "response" => last.result.attempt = 2

\* C4: when the refresh that follows a 401 in request() fails, the call settles
\* with the token absent, onAuthFailure invoked exactly once, and the
\* rejection NoValidTokenError.
C4_RefreshFailureAfter401 ==
    last.act = "request:settle" /\ last.attempt = 1 /\ last.outcome = "rejected" =>
        /\ accessToken = None
        /\ last.authFailures = 1
        /\ last.result.kind = "NoValidTokenError"

\* C5: a refresh that was outstanding when destroy() was called and later
\* succeeds leaves the manager as destroy() left it: no token, no timer.
C5_DestroyedRefreshIsDiscarded ==
    last.act = "refresh:settle" /\ last.outcome = "resolved" /\ last.destroyed
        /\ last.wasEmpty =>
            accessToken = None /\ timers = {}

\* C6: destroy() leaves no timer pending, so a timer armed before destroy()
\* never fires: it starts no refresh and never makes the token present again.
C6_DestroyCancelsTimer ==
    /\ \A t \in timers : ~t.stale
    /\ last.act = "timer" => ~last.destroyed
    /\ last.act = "destroy" =>
           timers = {} /\ accessToken = None /\ refreshPromise = 0

\* a destroy() that found a timer pending
C6_Witness == last.act = "destroy" /\ last.hadTimer

\* C7: at most one proactive-refresh timer is pending, and a pending timer is
\* the one the manager holds, armed for the current token: a timer armed for
\* a replaced or cleared token is gone.
C7_AtMostOneTimer ==
    /\ Cardinality(timers) <= 1
    /\ \A t \in timers :
           /\ t.id = refreshTimeoutId
           /\ accessToken # None
           /\ t.due = accessToken[1].expiresAt - refreshBuffer

\* a setAccessToken that replaced an armed timer by a new one
C7_Witness ==
    last.act = "setAccessToken" /\ last.hadTimer /\ Cardinality(timers) = 1

\* C8: getAccessToken() returns the current token's value without a refresh
\* exactly when a token is present and now < expiresAt - refreshBuffer;
\* otherwise it awaits refreshAccessToken(), which starts a refresh or joins
\* the pending one, and on success returns the token value of that refresh.
C8_GetAccessToken ==
    /\ last.act = "getAccessToken:return" =>
           /\ accessToken # None
           /\ now < accessToken[1].expiresAt - refreshBuffer
           /\ last.result.kind = "string"
           /\ last.result.str = Some(accessToken[1].token)
           /\ ~last.started
    /\ last.act = "getAccessToken:await" =>
           /\ accessToken = None \/ now >= accessToken[1].expiresAt - refreshBuffer
           /\ last.ref # 0 /\ last.ref = refreshPromise
           /\ last.started <=> last.slot = 0
           /\ ~last.started => last.ref = last.slot
    /\ last.act = "getAccessToken:resume" /\ last.outcome = "resolved" =>
           /\ last.result.kind = "string"
           /\ last.result.str = Some(last.tok[1].token)

\* a getAccessToken() that went through a refresh and returned its token
C8_Witness ==
    /\ last.act = "getAccessToken:resume"
    /\ last.outcome = "resolved"
    /\ last.result.str = Some(TokB)

\* C9: a getAccessToken() whose refresh fails rejects with NoValidTokenError.
C9_RefreshFailureIsNoValidToken ==
    last.act = "getAccessToken:resume" /\ last.outcome = "rejected" =>
        last.result.kind = "NoValidTokenError"

\* a getAccessToken() that saw its refresh reject
C9_Witness ==
    /\ last.act = "getAccessToken:resume"
    /\ last.outcome = "rejected"
    /\ last.result.kind = "NoValidTokenError"

\* what C10 and its amendment share: while only the clock has moved since a
\* setAccessToken that armed the timer, exactly that timer is pending, due
\* D - B after the call, and it does not fire before it is due
TimerIsDueAtExpiryMinusBuffer ==
    /\ sched # None =>
           /\ timers = {[id |-> refreshTimeoutId, due |-> sched[1].due,
                         stale |-> FALSE]}
           /\ accessToken # None
           /\ sched[1].due = accessToken[1].expiresAt - refreshBuffer
    /\ last.act = "timer" /\ last.armed # None =>
           last.due = last.armed[1].due /\ now >= last.due

\* C10 as stated: the timer that setAccessToken armed fires D - B later, not
\* before, and its firing starts exactly one refresh network call.
C10_TimerStartsOneRefresh ==
    /\ TimerIsDueAtExpiryMinusBuffer
    /\ last.act = "timer" /\ last.armed # None => last.started

\* C10 amended: the firing starts exactly one refresh network call when no
\* refresh promise is pending, and none when one is: it joins that one.
C10_TimerStartsOrJoinsRefresh ==
    /\ TimerIsDueAtExpiryMinusBuffer
    /\ last.act = "timer" /\ last.armed # None =>
           /\ last.started <=> last.slot = 0
           /\ last.ref = refreshPromise

\* the timer armed by setAccessToken fired and started a refresh
C10_Witness ==
    /\ last.act = "timer" /\ last.armed # None
    /\ last.started
    /\ now = last.due

\* the refreshes whose network call was outstanding when the step of last began
OutstandingBefore ==
    IF last.started THEN Outstanding(refreshes) \ {last.ref}
    ELSE Outstanding(refreshes)

\* the steps in which a caller's operation calls refreshAccessToken()
ForegroundCalls ==
    {"refreshAccessToken", "getAccessToken:await", "request:await", "request:401"}

\* C11: a timer firing while a refresh started by a caller is outstanding, and
\* a caller's refresh while one started by the timer is outstanding, take the
\* promise of that refresh and make no second refresh network call.
C11_TimerAndCallersShareTheSlot ==
    /\ last.act = "timer"
           /\ (\E i \in OutstandingBefore : ~refreshes[i].byTimer) =>
               ~last.started /\ OutstandingBefore = {last.ref}
    /\ last.act \in ForegroundCalls
           /\ (\E i \in OutstandingBefore : refreshes[i].byTimer) =>
               ~last.started /\ OutstandingBefore = {last.ref}

\* C12: on a 401 or 403 from the refresh endpoint the token and its timer are
\* cleared and onAuthFailure is invoked while the promise is still pending,
\* and the promise then rejects with TokenRefreshError; any other non-success
\* status rejects with TokenRefreshError without onAuthFailure.
C12_AuthFailureOnRefresh ==
    /\ last.act \in {"refresh:perfErr", "refresh:settle"} /\ last.status \in {401, 403} =>
           /\ last.act = "refresh:perfErr"
           /\ last.authFailures = 1
           /\ accessToken = None /\ timers = {}
           /\ refreshes[last.ref].pc = "perfErr"
    /\ last.act = "refresh:settleAuthFailed" =>
           last.outcome = "rejected" /\ last.error = "TokenRefreshError"
    /\ last.act = "refresh:settle" /\ last.status \notin {0, 401, 403}
           /\ ~ResponseOk(last.status) =>
               /\ last.outcome = "rejected" /\ last.error = "TokenRefreshError"
               /\ last.authFailures = 0

\* a 403 from the refresh endpoint cleared a token that had a timer
C12_Witness ==
    /\ last.act = "refresh:perfErr" /\ last.status = 403
    /\ ~last.wasEmpty
    /\ accessToken = None /\ timers = {}

\* C13: on a successful refresh the token is installed and the timer redone
\* for it (pending, due at expiresAt - refreshBuffer, when that lies ahead),
\* then onTokenRefresh is invoked once with that token, then the promise
\* resolves to it; at that point the current token is the resolved token.
C13_SuccessOrder ==
    last.act = "refresh:settle" /\ last.outcome = "resolved" =>
        /\ Len(last.onTokenRefresh) = 1
        /\ last.onTokenRefresh[1].arg = last.tok[1]
        /\ last.onTokenRefresh[1].current = last.tok
        /\ last.onTokenRefresh[1].timers = timers
        /\ accessToken = last.tok
        /\ timers = IF last.tok[1].expiresAt - now - refreshBuffer > 0
                    THEN {[id |-> refreshTimeoutId,
                           due |-> last.tok[1].expiresAt - refreshBuffer,
                           stale |-> FALSE]}
                    ELSE {}

\* a refresh resolved, replaced the token held before and armed the timer
C13_Witness ==
    /\ last.act = "refresh:settle" /\ last.outcome = "resolved"
    /\ ~last.wasEmpty
    /\ Len(last.onTokenRefresh) = 1
    /\ timers # {}

\* C14: every refresh that fails invokes onTokenRefreshError once with a
\* TokenRefreshError in the step in which the promise rejects, and the promise
\* rejects with that TokenRefreshError, which is what every waiter gets.
C14_FailureIsReported ==
    /\ last.act \in {"refresh:settle", "refresh:settleAuthFailed"}
           /\ last.outcome = "rejected" =>
               /\ last.onTokenRefreshError = << "TokenRefreshError" >>
               /\ last.error = last.onTokenRefreshError[1]
    /\ last.act = "refresh:perfErr" => last.onTokenRefreshError = << >>
    /\ \A i \in RefreshIds :
           refreshes[i].pc = "rejected" => refreshes[i].error = "TokenRefreshError"
    /\ last.act = "refreshAccessToken:resume" /\ last.outcome = "rejected" =>
           last.result.kind = "TokenRefreshError"

\* a refresh failed on a body that does not parse (status 200)
C14_Witness ==
    /\ last.act = "refresh:settle" /\ last.outcome = "rejected"
    /\ last.status = 200
    /\ last.onTokenRefreshError = << "TokenRefreshError" >>

\* C15: when a refresh settles the pending-refresh marker is null, the marker
\* never holds a settled promise, and a refreshAccessToken() call that finds
\* the marker null starts a new refresh network call.
C15_MarkerClearedOnSettle ==
    /\ last.act \in {"refresh:settle", "refresh:settleAuthFailed"} =>
           refreshPromise = 0
    /\ refreshPromise # 0 => refreshes[refreshPromise].pc \in {"fetch", "perfErr"}
    /\ last.act \in ForegroundCalls \cup {"timer"} =>
           /\ refreshes[last.ref].pc \in {"fetch", "perfErr"}
           /\ last.slot = 0 => last.started /\ refreshes[last.ref].pc = "fetch"

\* a call started a new refresh while a settled one still has its waiter
C15_Witness ==
    /\ last.act \in ForegroundCalls \cup {"timer"}
    /\ last.started
    /\ \E i \in RefreshIds : Settled(refreshes[i])

\* C16: the first fetch of request() carries Authorization: Bearer + the
\* manager's token and the retry Authorization: Bearer + the refreshed token,
\* whatever headers and options the caller supplies.
C16_AuthorizationNotOverridden ==
    /\ last.act = "request:send" => last.auth = Bearer(last.bearer[1])
    /\ last.act = "request:retry" => last.auth = Bearer(last.tok[1].token)

\* the strings setAccessToken rejects
RejectedStrings ==
    {TwoSegments, FourSegments, EmptySegment, EmptyString, TokGarbage, TokNoExp}

\* C17: setAccessToken with a rejected string throws and leaves the token,
\* the timer, the pending-refresh slot and the refreshes as they were.
C17_RejectedStringChangesNothing ==
    /\ RejectedStrings \subseteq StringInputs
    /\ \A token \in RejectedStrings :
           LET res == setAccessTokenString(Mgr, token)
           IN  ~res.ok /\ res.m = Mgr
    /\ last.act = "setAccessToken:throw" => ~last.started /\ last.ref = 0

\* a rejected setAccessToken on a manager with a token, a timer and a refresh
C17_Witness ==
    /\ last.act = "setAccessToken:throw"
    /\ accessToken # None /\ timers # {} /\ refreshPromise # 0

\* C18: the current token is absent or its string has exactly three non-empty
\* segments, however it was installed.
C18_CurrentTokenIsWellFormed ==
    accessToken = None \/ isValidJWTFormat(accessToken[1].token)

\* C19: the pending-refresh slot is non-null exactly while a refresh started
\* by the manager has not settled.
C19_SlotIffUnsettledRefresh ==
    /\ refreshPromise # 0 <=>
           \E i \in RefreshIds : refreshes[i].pc \in {"fetch", "perfErr"}
    /\ refreshPromise # 0 => refreshes[refreshPromise].pc \in {"fetch", "perfErr"}

\* C20: a refresh started by the timer that fails has a rejection handler (the
\* rejection stays in the timer callback), is reported through
\* onTokenRefreshError, and leaves the slot null, so that a later
\* getAccessToken() or request() that needs a refresh starts a new one.
C20_BackgroundFailureIsContained ==
    /\ \A i \in RefreshIds : refreshes[i].byTimer => refreshes[i].handled
    /\ last.act \in {"refresh:settle", "refresh:settleAuthFailed"}
           /\ last.byTimer /\ last.outcome = "rejected" =>
               /\ last.handled
               /\ last.onTokenRefreshError = << "TokenRefreshError" >>
               /\ refreshPromise = 0
    /\ last.act \in {"getAccessToken:await", "request:await"} /\ last.slot = 0 =>
           last.started

\* a refresh started by the timer failed with nobody else awaiting it
C20_Witness ==
    /\ last.act = "refresh:settle" /\ last.byTimer /\ last.outcome = "rejected"
    /\ procs[Caller].ref = 0

\* C21: when the onAuthFailure callback re-enters the manager with
\* clearAccessToken(), the manager stays consistent.  After the step that
\* invoked it the token is absent and no timer is armed or held.  In a 401/403
\* refresh the promise then rejects with TokenRefreshError and its continuation
\* empties the pending-refresh slot; in request() the call rejects with
\* NoValidTokenError, the handler leaves the slot as it was, and the slot no
\* longer holds the refresh that failed.
C21_ReentrantClearKeepsConsistent ==
    last.reentered =>
        /\ accessToken = None
        /\ refreshTimeoutId = 0
        /\ timers = {}
        /\ last.act \in {"refresh:perfErr", "request:settle"}
        /\ last.act = "refresh:perfErr" =>
               LET res == refreshContinuation(Mgr, refreshes[last.ref], FALSE)
               IN  /\ refreshes[last.ref].pc = "perfErr"
                   /\ res.r.pc = "rejected"
                   /\ res.r.error = "TokenRefreshError"
                   /\ res.m.refreshPromise = 0
                   /\ res.m.accessToken = None
                   /\ res.m.timers = {}
        /\ last.act = "request:settle" =>
               /\ last.result.kind = "NoValidTokenError"
               /\ refreshPromise = last.slot
               /\ last.attempt = 1 => refreshPromise # last.ref
               /\ procs[Caller] = IdleProc

C21_Witness ==
    /\ last.reentered
    /\ last.act = "refresh:perfErr"
    /\ ~last.wasEmpty

\* C22: hasValidAccessToken() returns true exactly when a token is present
\* and now < expiresAt, whatever the refresh buffer, and the step changes
\* neither the manager, the timers, the refreshes nor the clock.
C22_HasValidAccessToken ==
    [][last'.act = "hasValidAccessToken" =>
          /\ last'.result.kind = "boolean"
          /\ last'.result.bool = (accessToken # None /\ now < accessToken[1].expiresAt)
          /\ UNCHANGED << now, accessToken, refreshPromise, refreshTimeoutId, timers,
                          refreshes, procs >>]_vars

\* a token inside the refresh buffer is still reported valid
C22_Witness ==
    /\ last.act = "hasValidAccessToken"
    /\ last.result.bool
    /\ accessToken # None
    /\ now >= accessToken[1].expiresAt - refreshBuffer

\* C23: clearAccessToken() leaves no token and no timer, armed or held, and
\* does not touch the pending-refresh slot; clearing the state it leaves
\* changes nothing, and neither does clearing when no token is present.
C23_ClearIsIdempotent ==
    [][last'.act = "clearAccessToken" =>
          /\ accessToken' = None
          /\ refreshTimeoutId' = 0
          /\ timers' = {}
          /\ refreshPromise' = refreshPromise
          /\ clearAccessToken([accessToken |-> accessToken',
                               refreshPromise |-> refreshPromise',
                               refreshTimeoutId |-> refreshTimeoutId',
                               timers |-> timers'])
                 = [accessToken |-> accessToken', refreshPromise |-> refreshPromise',
                    refreshTimeoutId |-> refreshTimeoutId', timers |-> timers']
          /\ accessToken = None =>
                 UNCHANGED << accessToken, refreshPromise, refreshTimeoutId, timers >>]_vars

C23_Witness ==
    /\ last.act = "clearAccessToken"
    /\ last.hadTimer
    /\ accessToken = None
    /\ timers = {}

\* C24: getCurrentAccessToken() returns the stored token, or null when there
\* is none, and the step changes neither the token, the timer, the
\* pending-refresh slot, the refreshes (no fetch is issued) nor the clock.
C24_GetCurrentIsPureRead ==
    [][last'.act = "getCurrentAccessToken" =>
          /\ IF accessToken = None THEN last'.result.kind = "null"
             ELSE last'.result.kind = "JWTToken" /\ last'.result.jwt = accessToken
          /\ last'.started = FALSE
          /\ last'.onTokenRefresh = << >> /\ last'.onTokenRefreshError = << >>
          /\ last'.authFailures = 0
          /\ UNCHANGED << now, accessToken, refreshPromise, refreshTimeoutId, timers,
                          refreshes, procs >>]_vars

\* an expired token is returned as it is stored
C24_Witness ==
    /\ last.act = "getCurrentAccessToken"
    /\ last.result.kind = "JWTToken"
    /\ now >= last.result.jwt[1].expiresAt
    /\ accessToken = last.result.jwt

\* a string of exactly three non-empty segments: two periods, none of them
\* first, last or next to the other
ThreeNonEmptySegments(str) ==
    /\ Len(str) > 0
    /\ Cardinality({k \in 1..Len(str) : str[k] = "."}) = 2
    /\ str[1] # "."
    /\ str[Len(str)] # "."
    /\ \A k \in 1..(Len(str) - 1) : ~(str[k] = "." /\ str[k + 1] = ".")

\* C25: isValidJWTFormat returns a boolean for every argument, and true
\* exactly for a string of three non-empty period-separated segments; null,
\* undefined, the empty string and every other segment count give false.
C25_ValidFormatIffThreeSegments ==
    last.act = "isValidJWTFormat" =>
        /\ last.result.kind = "boolean"
        /\ last.result.bool =
               (last.input.kind = "string" /\ ThreeNonEmptySegments(last.input.str))

\* three segments, one of them empty, are rejected
C25_Witness ==
    /\ last.act = "isValidJWTFormat"
    /\ last.input = JsString(<< "a", ".", ".", "a" >>)
    /\ ~last.result.bool

\* C26: for every exp claim E of 0..MaxExp, createJWTToken of a well-formed
\* token carrying it returns expiresAt = E * 1000 and isTokenExpired of the
\* result with buffer 0 is (now >= E * 1000); the missing-expiration error is
\* thrown only for a payload without the claim.
C26_ExpirationInMilliseconds ==
    last.act = "createJWTToken" =>
        /\ \A E \in 0..MaxExp :
               last.input = TokenWithExp(E) =>
                   /\ last.result.kind = "JWTToken"
                   /\ last.result.jwt[1].expiresAt = E * MsPerSecond
                   /\ last.result.bool = (now >= E * MsPerSecond)
        /\ last.error = "Token does not contain expiration time" =>
               last.input = TokNoExp

\* C27: isTokenExpired(token, bufferMs) is true exactly when
\* now >= expiresAt - bufferMs, the boundary instant included, and a token
\* expired under one buffer is expired under every larger one.
C27_ExpiredIffPastBufferedExpiry ==
    last.act = "isTokenExpired" =>
        LET i == last.input
        IN  /\ last.result.bool = (now >= i.token.expiresAt - i.bufferMs)
            /\ now = i.token.expiresAt - i.bufferMs => last.result.bool
            /\ last.result.bool =>
                   \A b \in (i.bufferMs + 1)..(i.bufferMs + 2 * TickMs) :
                       isTokenExpired(i.token, b)

C27_Witness ==
    /\ last.act = "isTokenExpired"
    /\ last.input.bufferMs > 0
    /\ now = last.input.token.expiresAt - last.input.bufferMs
    /\ last.result.bool

\* C28: the constructor throws exactly when the configuration has no refresh
\* URL or its extractAccessToken is not a function, and then no fetch has
\* been issued and no timer armed; otherwise it returns a manager with no
\* token, no pending refresh and no timer.
C28_ConfigValidatedAtConstruction ==
    last.act = "constructor" =>
        /\ (last.result.kind = "Error") =
               (~last.input.hasUrl \/ last.input.extractAccessToken # "function")
        /\ last.result.kind \in {"Error", "JWTManager"}
        /\ timers = {}
        /\ \A i \in RefreshIds : refreshes[i].pc = "free"
        /\ last.result.kind = "JWTManager" =>
               /\ accessToken = None
               /\ refreshPromise = 0
               /\ refreshTimeoutId = 0

\* a URL alone is not enough
C28_Witness ==
    /\ last.act = "constructor"
    /\ last.input.hasUrl
    /\ last.input.extractAccessToken = "undefined"
    /\ last.result.kind = "Error"
    /\ last.error = "extractAccessToken function is required"

\* C29: when the refresh after a 401 succeeded and the retry then fails (its
\* fetch rejects or its body cannot be read), request() does not treat it as
\* an authentication failure: the token stays, onAuthFailure is not invoked
\* and the call rejects with the generic request Error.
C29_RetryFailureIsGeneric ==
    (last.act = "request:settle" /\ last.attempt = 2 /\ ~last.bodyOk) =>
        /\ last.result.kind = "Error"
        /\ last.authFailures = 0
        /\ accessToken = last.tok

\* C30: a retry answered 401 with a readable body is returned as it is, as
\* the response of attempt 2: onAuthFailure is not invoked, the token and the
\* pending-refresh slot are left as they were, the call is over and no further
\* refresh or fetch is started; no step of request() is an attempt beyond 2.
C30_RetriesAtMostOnce ==
    /\ last.attempt \in 0..2
    /\ (last.act = "request:settle" /\ last.attempt = 2 /\ last.status = 401
            /\ last.bodyOk) =>
           /\ last.result = Response(401, 2)
           /\ last.authFailures = 0
           /\ ~last.started
           /\ accessToken = last.tok
           /\ refreshPromise = last.slot
           /\ procs[Caller] = IdleProc

C30_Witness ==
    /\ last.act = "request:settle"
    /\ last.attempt = 2
    /\ last.status = 401
    /\ last.result = Response(401, 2)
    /\ accessToken # None

\* C31: when the first fetch of request() is answered with a status other
\* than 401 and the body is read, the call returns that response as the
\* result of attempt 1; the step starts no refresh, invokes no callback and
\* leaves the token, the timer, the pending-refresh slot and the refreshes as
\* they were, and the call is over, so no second fetch follows.
C31_OtherStatusReturnedAsIs ==
    [][(procs[Caller].pc = "awaitFetch1" /\ procs'[Caller].pc # "awaitFetch1"
            /\ last'.status \notin {0, 401}
            /\ (last'.bodyOk \/ last'.act = "request:401")) =>
          /\ last'.act = "request:settle"
          /\ last'.result = Response(last'.status, 1)
          /\ ~last'.started
          /\ last'.authFailures = 0
          /\ last'.onTokenRefresh = << >> /\ last'.onTokenRefreshError = << >>
          /\ procs'[Caller] = IdleProc
          /\ UNCHANGED << accessToken, refreshPromise, refreshTimeoutId, timers,
                          refreshes >>]_vars

\* a 403 and a 500 come back as they are
C31_Witness ==
    /\ last.act = "request:settle"
    /\ last.attempt = 1
    /\ last.status \in {403, 500}
    /\ last.result = Response(last.status, 1)
    /\ accessToken # None
    /\ timers # {}

\* the token just installed has no more time left than the refresh buffer
WithinBuffer == accessToken[1].expiresAt - now - refreshBuffer <= 0

\* C32: after a token is installed, by setAccessToken or by a refresh that
\* resolves, a timer is pending only if expiresAt - now - refreshBuffer > 0,
\* and then it is due later than now; with no more lifetime than the buffer
\* no timer is pending, and the installing step has started no refresh (a
\* refresh that resolved leaves the pending-refresh slot null).
C32_NoTimerWithinBuffer ==
    (/\ last.act \in {"setAccessToken", "refresh:settle"}
     /\ last.act = "refresh:settle" => last.outcome = "resolved"
     /\ accessToken # None) =>
        /\ WithinBuffer => timers = {}
        /\ \A t \in timers : t.due > now
        /\ ~last.started
        /\ last.act = "refresh:settle" => refreshPromise = 0

\* a refresh brings a token that is already inside the buffer
C32_Witness ==
    /\ last.act = "refresh:settle"
    /\ last.outcome = "resolved"
    /\ accessToken = last.tok
    /\ accessToken # None
    /\ WithinBuffer
    /\ timers = {}
    /\ refreshPromise = 0

\* C33: the step in which a refresh fails on a rejected fetch, a status other
\* than 401/403, an unreadable body or an invalid extracted token changes
\* neither the token nor the timer; a refresh step moves a present token to
\* absent only on a 401 or 403.
C33_OtherFailuresKeepToken ==
    [][/\ (last'.act = "refresh:settle" /\ last'.outcome = "rejected"
              /\ last'.onTokenRefresh = << >>) =>
             /\ last'.status \notin {401, 403}
             /\ UNCHANGED << accessToken, refreshTimeoutId, timers >>
       /\ (last'.act \in {"refresh:settle", "refresh:perfErr", "refresh:settleAuthFailed"}
              /\ accessToken # None /\ accessToken' = None) =>
             (last'.act = "refresh:perfErr" /\ last'.status \in {401, 403})]_vars

\* a 500 from the refresh endpoint leaves the token and its timer in place
C33_Witness ==
    /\ last.act = "refresh:settle"
    /\ last.outcome = "rejected"
    /\ last.status = 500
    /\ accessToken # None
    /\ timers # {}

\* what extractAccessToken returns of a body that performTokenRefresh accepts
ValidRefreshTokens == {t \in RefreshTokens : isValidJWTFormat(t.token)}

\* C34: clearAccessToken() leaves the pending-refresh slot, the refreshes and
\* the callers awaiting them as they were; and whenever a refresh fetch is
\* outstanding, its success makes its token the current token, resolves the
\* promise with it and arms the timer for it when the token has more time left
\* than the buffer, whatever was cleared in between.
C34_ClearDoesNotCancelRefresh ==
    /\ last.act = "clearAccessToken" =>
           /\ refreshPromise = last.slot
           /\ last.joinable => Outstanding(refreshes) # {}
           /\ last.slot # 0 => refreshes[refreshPromise].pc \in {"fetch", "perfErr"}
    /\ \A i \in Outstanding(refreshes), t \in ValidRefreshTokens :
           LET perf == performTokenRefresh(Mgr, refreshes[i], 200,
                                           [ok |-> TRUE, tok |-> Some(t)])
               res == refreshContinuation(perf.m, perf.r, FALSE)
           IN  /\ res.r.pc = "resolved"
               /\ res.r.tok = Some(t)
               /\ res.m.accessToken = Some(t)
               /\ t.expiresAt - now - refreshBuffer > 0 =>
                      \E tm \in res.m.timers :
                          /\ tm.id = res.m.refreshTimeoutId
                          /\ tm.due = t.expiresAt - refreshBuffer

\* a clear while a caller awaits the outstanding refresh
C34_Witness ==
    /\ last.act = "clearAccessToken"
    /\ last.joinable
    /\ ~last.wasEmpty
    /\ accessToken = None
    /\ refreshPromise # 0
    /\ procs[Caller].ref = refreshPromise
    /\ refreshes[refreshPromise].pc = "fetch"

\* C35: while a token is present and now < expiresAt - refreshBuffer, the
\* timer the manager holds is pending and due at expiresAt - refreshBuffer of
\* that token.
C35_TimerPendingBeforeThreshold ==
    (accessToken # None /\ now < accessToken[1].expiresAt - refreshBuffer) =>
        \E t \in timers :
            /\ t.id = refreshTimeoutId
            /\ t.due = accessToken[1].expiresAt - refreshBuffer
            /\ ~t.stale

\* the timer armed for the token a refresh installed
C35_Witness ==
    /\ last.act = "refresh:settle"
    /\ last.outcome = "resolved"
    /\ accessToken = last.tok
    /\ accessToken # None
    /\ now < accessToken[1].expiresAt - refreshBuffer
    /\ timers # {}

\* C36: a pending timer implies a present token.
C36_TimerImpliesToken ==
    timers # {} => accessToken # None

\* request()'s failed-refresh handling has removed a token and its timer
C36_Witness ==
    /\ last.act = "request:settle"
    /\ last.result.kind = "NoValidTokenError"
    /\ last.attempt = 2
    /\ last.tok # None
    /\ accessToken = None
    /\ timers = {}

NoCallbacks ==
    /\ last.onTokenRefresh = << >>
    /\ last.onTokenRefreshError = << >>
    /\ last.authFailures = 0

\* C37: the callbacks belong to the refresh, not to its waiters.  The step in
\* which a refresh resolves invokes onTokenRefresh once and nothing else; the
\* step in which it rejects invokes onTokenRefreshError once; a 401/403
\* invokes onAuthFailure once, when performTokenRefresh throws; and the steps
\* in which callers join the refresh or see it settle invoke no callback.
C37_CallbacksOncePerRefresh ==
    /\ last.act = "refresh:settle" =>
           /\ last.authFailures = 0
           /\ last.outcome = "resolved" =>
                  Len(last.onTokenRefresh) = 1 /\ last.onTokenRefreshError = << >>
           /\ last.outcome = "rejected" =>
                  Len(last.onTokenRefreshError) = 1 /\ Len(last.onTokenRefresh) <= 1
    /\ last.act = "refresh:perfErr" =>
           /\ last.authFailures = 1
           /\ last.onTokenRefresh = << >> /\ last.onTokenRefreshError = << >>
           /\ refreshes[last.ref].pc = "perfErr"
    /\ last.act = "refresh:settleAuthFailed" =>
           /\ last.authFailures = 0
           /\ last.onTokenRefresh = << >>
           /\ Len(last.onTokenRefreshError) = 1
    /\ last.act \in {"refreshAccessToken", "refreshAccessToken:resume"} => NoCallbacks

\* every caller awaits the refresh that has just resolved
C37_Witness ==
    /\ last.act = "refresh:settle"
    /\ last.outcome = "resolved"
    /\ \A p \in Procs : procs[p].ref = last.ref
    /\ Len(last.onTokenRefresh) = 1

\* the refresh caller p awaits after a 401 has not settled
AwaitsUnsettledAfter401(p) ==
    /\ procs[p].pc = "awaitRefresh401"
    /\ refreshes[procs[p].ref].pc \in {"fetch", "perfErr"}

\* C38: two request() calls that both received a 401 while the refresh of the
\* first has not settled await the same refresh; each retry carries the token
\* that refresh resolved to; and when the awaited refresh rejects, the call
\* rejects with NoValidTokenError and leaves the token absent.
C38_RequestsShareRefresh ==
    /\ \A p, q \in Procs :
           (AwaitsUnsettledAfter401(p) /\ AwaitsUnsettledAfter401(q)) =>
               procs[p].ref = procs[q].ref
    /\ last.act = "request:retry" =>
           /\ last.attempt = 2
           /\ last.bearer = Some(last.tok[1].token)
    /\ (last.act = "request:settle" /\ last.attempt = 1 /\ last.outcome = "rejected") =>
           /\ last.result.kind = "NoValidTokenError"
           /\ accessToken = None

\* C39: the step in which a refreshAccessToken() promise rejects installs no
\* token: the current token is the one held before the step, or absent.
C39_RejectionInstallsNothing ==
    [][(last'.act \in {"refresh:settle", "refresh:settleAuthFailed"}
            /\ last'.outcome = "rejected") =>
          (accessToken' = accessToken \/ accessToken' = None)]_vars

\* C40: when every fetch and body read settles, a call of refreshAccessToken(),
\* getAccessToken() or request() that is in progress eventually settles, and a
\* pending-refresh slot that is set eventually is null again.
C40_EveryCallSettles ==
    /\ (procs[Caller].pc # "idle") ~> (procs[Caller].pc = "idle")
    /\ (refreshPromise # 0) ~> (refreshPromise = 0)

\* a request() waits for the refresh it called after a 401
C40_Witness ==
    /\ procs[Caller].pc = "awaitRefresh401"
    /\ refreshPromise # 0
    /\ procs[Caller].ref = refreshPromise
    /\ refreshes[refreshPromise].pc = "fetch"

====
